---------------------------- MODULE Spec2Model ----------------------------
(***************************************************************************)
(* A model of DataCollector (src/data_collection/data_collector.py): the   *)
(* pipeline get_data -> get_matrix_game_states -> get_boards ->            *)
(* pgn_to_boards, and the pure functions find_moved_piece and              *)
(* board_to_8x8x12.                                                        *)
(*                                                                         *)
(* python-chess is an external library: a chess.Board is modelled by its   *)
(* piece map (square = rank * 8 + file, a1 = 0), its turn and its en       *)
(* passant square, a chess.Move by its from_square, to_square and          *)
(* promotion.  Game records are prefixes of legal games of standard chess  *)
(* (plain moves, captures, castling, en passant, promotion); the games of  *)
(* one run are the same prefix of one game, under either colour, or a game *)
(* without moves.                                                          *)
(***************************************************************************)
EXTENDS Integers, Sequences, FiniteSets, TLC

VARIABLES
    all_pgns,        \* the 'pgn' column get_all_pgns returns (the input)
    pc,              \* position of the call of get_data
    pgn_index,       \* 1-based position of the loop of get_boards in all_pgns
    all_boards,      \* get_boards: list (per game) of lists of boards
    all_matrices,    \* get_matrix_game_states: list of lists of 8x8 matrices
    data,            \* get_data: list of (tensor, label)
    board_state_1,   \* arguments of a direct call of find_moved_piece /
    board_state_2,   \*   board_to_8x8x12 (board_state_1 is game_state)
    moved,           \* result of the direct call of find_moved_piece
    board_12         \* result of the direct call of board_to_8x8x12

vars == <<all_pgns, pc, pgn_index, all_boards, all_matrices, data,
          board_state_1, board_state_2, moved, board_12>>

----------------------------------------------------------------------------
(* Bounds of the model *)

\* most records in the 'pgn' column
MaxGames == 2
\* most half-moves of one game record
MaxMoves == 10
\* most snapshots of one synthetic game handed to the loop of get_data
MaxStates == 3
\* number of squares of a synthetic grid that are varied
NumEditCells == 2

----------------------------------------------------------------------------
(* python-chess constants *)

PAWN == 1
KNIGHT == 2
BISHOP == 3
ROOK == 4
QUEEN == 5
KING == 6
WHITE == TRUE
BLACK == FALSE

\* board side length (np.zeros((8, 8)), range(8), square // 8)
BoardSize == 8
\* number of squares (range(64))
NumSquares == 64
\* number of channels of the tensor (np.zeros((8, 8, 12)))
NumChannels == 12
\* offset of the channels of negative pieces (abs(piece) - 1 + 6)
OppChannelOffset == 6

Squares == 0..(NumSquares - 1)
Idx == 0..(BoardSize - 1)
Abs(x) == IF x < 0 THEN -x ELSE x
Min(a, b) == IF a < b THEN a ELSE b

square_rank(sq) == sq \div BoardSize
square_file(sq) == sq % BoardSize
Sq(f, r) == r * BoardSize + f

\* board.ep_square when there is none (None)
NoSquare == -1

\* chess.Board.piece_at on an empty square (None)
NoPiece == [piece_type |-> 0, color |-> FALSE]
Piece(t, c) == [piece_type |-> t, color |-> c]

BackRank == <<ROOK, KNIGHT, BISHOP, QUEEN, KING, BISHOP, KNIGHT, ROOK>>

\* game.board(): the starting position, white to move
StartingBoard ==
    [pieces |->
        [sq \in Squares |->
            CASE square_rank(sq) = 0 -> Piece(BackRank[square_file(sq) + 1], WHITE)
              [] square_rank(sq) = 1 -> Piece(PAWN, WHITE)
              [] square_rank(sq) = 6 -> Piece(PAWN, BLACK)
              [] square_rank(sq) = 7 -> Piece(BackRank[square_file(sq) + 1], BLACK)
              [] OTHER -> NoPiece],
     turn |-> WHITE,
     ep_square |-> NoSquare]

Move(f, t) == [from_square |-> f, to_square |-> t, promotion |-> 0]
Promote(f, t, p) == [from_square |-> f, to_square |-> t, promotion |-> p]

\* whether a move is the king's two-file castling move
IsCastling(board, move) ==
    /\ board.pieces[move.from_square].piece_type = KING
    /\ Abs(square_file(move.to_square) - square_file(move.from_square)) = 2
    /\ square_rank(move.to_square) = square_rank(move.from_square)

\* whether a pawn move takes en passant: it lands on the en passant square,
\* diagonally, and nothing stands there
IsEnPassant(board, move) ==
    /\ board.pieces[move.from_square].piece_type = PAWN
    /\ move.to_square = board.ep_square
    /\ Abs(move.to_square - move.from_square) \in {7, 9}
    /\ board.pieces[move.to_square] = NoPiece

\* the en passant square a move leaves behind: a pawn's double step sets it
next_ep_square(board, move) ==
    LET diff == move.to_square - move.from_square
    IN  IF board.pieces[move.from_square].piece_type /= PAWN THEN NoSquare
        ELSE IF diff = 16 /\ square_rank(move.from_square) = 1
             THEN move.from_square + 8
        ELSE IF diff = -16 /\ square_rank(move.from_square) = 6
             THEN move.from_square - 8
        ELSE NoSquare

\* board.push(move): the piece leaves from_square and lands on to_square
\* (replacing what stood there), as the promotion piece if there is one; a
\* pawn taking en passant removes the pawn behind the en passant square;
\* castling also takes the rook from the corner to the square the king
\* crossed; the turn passes.
push(board, move) ==
    LET piece == board.pieces[move.from_square]
        landed == IF move.promotion /= 0 THEN Piece(move.promotion, piece.color)
                  ELSE piece
        r == square_rank(move.from_square)
        kingside == square_file(move.to_square) > square_file(move.from_square)
        rook_from == IF kingside THEN Sq(7, r) ELSE Sq(0, r)
        rook_to == IF kingside THEN Sq(5, r) ELSE Sq(3, r)
        down == IF board.turn = WHITE THEN -8 ELSE 8
        plain == [board.pieces EXCEPT ![move.from_square] = NoPiece,
                                      ![move.to_square] = landed]
    IN  [pieces |-> IF IsCastling(board, move)
                    THEN [plain EXCEPT ![rook_from] = NoPiece,
                                       ![rook_to] = board.pieces[rook_from]]
                    ELSE IF IsEnPassant(board, move)
                    THEN [plain EXCEPT ![board.ep_square + down] = NoPiece]
                    ELSE plain,
         turn |-> ~board.turn,
         ep_square |-> next_ep_square(board, move)]

\* chess.square_mirror(square): square ^ 56
square_mirror(sq) == Sq(square_file(sq), 7 - square_rank(sq))

\* a mirror that turns the board by 180 degrees instead
mirror_rotated(board) ==
    [pieces |->
        [sq \in Squares |->
            LET p == board.pieces[(NumSquares - 1) - sq]
            IN  IF p = NoPiece THEN NoPiece ELSE Piece(p.piece_type, ~p.color)],
     turn |-> ~board.turn,
     ep_square |-> IF board.ep_square = NoSquare THEN NoSquare
                   ELSE (NumSquares - 1) - board.ep_square]

\* board.mirror(): ranks are flipped (square ^ 56), files are kept, the
\* colours of the pieces and the turn are swapped
mirror(board) ==
    [pieces |->
        [sq \in Squares |->
            LET p == board.pieces[square_mirror(sq)]
            IN  IF p = NoPiece THEN NoPiece ELSE Piece(p.piece_type, ~p.color)],
     turn |-> ~board.turn,
     ep_square |-> IF board.ep_square = NoSquare THEN NoSquare
                   ELSE square_mirror(board.ep_square)]

----------------------------------------------------------------------------
(* The game records *)

\* self.username
username == "user"

\* the (White, Black) headers a record may carry
HeaderPairs == {<<username, "opp">>, <<"opp", username>>, <<"opp", "rival">>}

\* A legal game: 1. Nf3 a5 2. e3 a4 3. Be2 g5 4. O-O a3 5. Nxg5 axb2
\* 6. Bxb2 Nf6
LineCastle ==
    << Move(6, 21),  Move(48, 32), Move(12, 20), Move(32, 24),
       Move(5, 12),  Move(54, 38), Move(4, 6),   Move(24, 16),
       Move(21, 38), Move(16, 9),  Move(2, 9),   Move(62, 45) >>

\* A legal game: 1. e4 a6 2. e5 d5 3. exd6 (en passant) h6 4. dxc7 h5
\* 5. cxb8=Q Rxb8 6. d4 h4
LinePromote ==
    << Move(12, 28), Move(48, 40), Move(28, 36), Move(51, 35),
       Move(36, 43), Move(55, 47), Move(43, 50), Move(47, 39),
       Promote(50, 57, QUEEN), Move(56, 57), Move(11, 27), Move(39, 31) >>

Lines == {LineCastle, LinePromote}

Prefix(s, n) == SubSeq(s, 1, Min(n, Len(s)))

\* an entry of the 'pgn' column that is not a str (None or a float)
NonStringPgn ==
    [is_str |-> FALSE, parses |-> FALSE, White |-> "", Black |-> "", moves |-> <<>>]
\* a str holding no game: chess.pgn.read_game returns None at end of input
EmptyPgn ==
    [is_str |-> TRUE, parses |-> FALSE, White |-> "", Black |-> "", moves |-> <<>>]
\* a game that ended before its first move
ZeroMovePgn ==
    [is_str |-> TRUE, parses |-> TRUE, White |-> username, Black |-> "opp",
     moves |-> <<>>]
\* the records of the first n half-moves of a line
GamePgns(line, n) ==
    { [is_str |-> TRUE, parses |-> TRUE, White |-> h[1], Black |-> h[2],
       moves |-> Prefix(line, n)] :
        h \in HeaderPairs }
Pgns(line, n) == {NonStringPgn, EmptyPgn, ZeroMovePgn} \cup GamePgns(line, n)

RECURSIVE SeqsUpTo(_, _)
SeqsUpTo(S, n) ==
    IF n = 0 THEN {<<>>}
    ELSE LET shorter == SeqsUpTo(S, n - 1)
         IN  shorter \cup {Append(s, x) : s \in {t \in shorter : Len(t) = n - 1}, x \in S}

----------------------------------------------------------------------------
(* get_user_color and pgn_to_boards *)

\* chess.pgn.read_game(io.StringIO(pgn)) returns None
read_game_is_None(pgn) == ~pgn.parses

get_user_color(pgn) ==
    IF pgn.White = username THEN "white" ELSE "black"

\* the loop of pgn_to_boards from move_number on: board is the one mutable
\* board, boards the snapshots taken so far
RECURSIVE pgn_to_boards_loop(_, _, _, _, _, _)
pgn_to_boards_loop(moves, move_number, board, boards, user_color, user_starting_move) ==
    IF move_number >= Len(moves) THEN boards
    ELSE LET snapshot == IF user_color = "white" THEN board ELSE mirror(board)
             boards2 == IF move_number % 2 = user_starting_move
                        THEN Append(boards, snapshot)
                        ELSE boards
         IN  pgn_to_boards_loop(moves, move_number + 1,
                                push(board, moves[move_number + 1]),
                                boards2, user_color, user_starting_move)

\* the board after exactly the first n moves of a game
RECURSIVE board_after(_, _)
board_after(moves, n) ==
    IF n = 0 THEN StartingBoard ELSE push(board_after(moves, n - 1), moves[n])

\* pgn_to_boards with boards.append(board) in place of a copy: every entry
\* is the one board object, seen after the last push

pgn_to_boards_aliased(pgn) ==
    LET user_color == get_user_color(pgn)
        kept == pgn_to_boards_loop(pgn.moves, 0, StartingBoard, <<>>, user_color,
                                   IF user_color = "white" THEN 0 ELSE 1)
        last == board_after(pgn.moves, Len(pgn.moves))
    IN  [k \in 1..Len(kept) |-> IF user_color = "white" THEN last ELSE mirror(last)]

pgn_to_boards(pgn) ==
    LET user_color == get_user_color(pgn)
        user_starting_move == IF user_color = "white" THEN 0 ELSE 1
    IN  pgn_to_boards_loop(pgn.moves, 0, StartingBoard, <<>>, user_color,
                           user_starting_move)

\* the test of get_boards that skips an entry
skip_non_string_never(pgn) == FALSE

skip_non_string(pgn) == ~pgn.is_str

----------------------------------------------------------------------------
(* get_matrix_game_states *)

piece_to_int(piece) == piece.piece_type

\* the matrix of one board: matrix[7 - row][col] = value
board_to_matrix(board) ==
    [i \in Idx |-> [j \in Idx |->
        LET square == Sq(j, 7 - i)
            piece == board.pieces[square]
        IN  IF piece = NoPiece THEN 0
            ELSE IF piece.color = BLACK THEN -1 * piece_to_int(piece)
            ELSE piece_to_int(piece)]]

matrices_of_game(game) == [k \in 1..Len(game) |-> board_to_matrix(game[k])]

matrices_of(boards) == [g \in 1..Len(boards) |-> matrices_of_game(boards[g])]

----------------------------------------------------------------------------
(* find_moved_piece *)

flatten(m) == [k \in Squares |-> m[k \div BoardSize][k % BoardSize]]

\* find_moved_piece returns None
NoResult == <<>>

\* the scan of find_moved_piece from square_number on; found is the
\* (moved_square_number, moved_piece) kept so far, or NoResult
RECURSIVE find_moved_piece_loop(_, _, _, _)
find_moved_piece_loop(flat1, flat2, square_number, found) ==
    IF square_number >= NumSquares THEN found
    ELSE LET piece_in_square == flat1[square_number]
             hit == piece_in_square /= flat2[square_number] /\ piece_in_square > 0
         IN  find_moved_piece_loop(flat1, flat2, square_number + 1,
                 IF hit THEN <<square_number, piece_in_square>> ELSE found)

\* a scan that stops at the first candidate
RECURSIVE find_first_loop(_, _, _)
find_first_loop(flat1, flat2, square_number) ==
    IF square_number >= NumSquares THEN NoResult
    ELSE IF flat1[square_number] /= flat2[square_number] /\ flat1[square_number] > 0
         THEN <<square_number, flat1[square_number]>>
         ELSE find_first_loop(flat1, flat2, square_number + 1)

find_moved_piece_first(b1, b2) == find_first_loop(flatten(b1), flatten(b2), 0)

find_moved_piece(b1, b2) ==
    find_moved_piece_loop(flatten(b1), flatten(b2), 0, NoResult)

----------------------------------------------------------------------------
(* board_to_8x8x12 *)

\* the (8, 8, 12) array filled by the double loop
fill_board_12(game_state) ==
    [i \in Idx |-> [j \in Idx |-> [channel \in 0..(NumChannels - 1) |->
        LET piece == game_state[i][j]
        IN  IF piece = 0 THEN 0
            ELSE IF piece > 0
                 THEN (IF channel = piece - 1 THEN 1 ELSE 0)
                 ELSE (IF channel = Abs(piece) - 1 + OppChannelOffset THEN 1 ELSE 0)]]]

\* np.transpose(a, (2, 1, 0))
transpose_210(a) ==
    [ch \in 0..(NumChannels - 1) |-> [i \in Idx |-> [j \in Idx |-> a[j][i][ch]]]]

\* np.transpose(a, (2, 0, 1)): out[ch][i][j] = a[i][j][ch]
transpose_201(a) ==
    [ch \in 0..(NumChannels - 1) |-> [i \in Idx |-> [j \in Idx |-> a[i][j][ch]]]]

board_to_8x8x12(game_state) == transpose_201(fill_board_12(game_state))

----------------------------------------------------------------------------
(* get_data *)

\* the inner loop of get_data over one game, from move_number (0-based) on
RECURSIVE game_loop(_, _, _)
game_loop(individual_game_states, move_number, acc) ==
    IF move_number >= Len(individual_game_states) THEN acc
    ELSE IF move_number = Len(individual_game_states) - 1 THEN acc   \* break
    ELSE LET game_state == individual_game_states[move_number + 1]
             bs2 == individual_game_states[move_number + 2]
             res == find_moved_piece(game_state, bs2)
         IN  IF res = NoResult
             THEN game_loop(individual_game_states, move_number + 1, acc)  \* continue
             ELSE game_loop(individual_game_states, move_number + 1,
                            Append(acc, <<board_to_8x8x12(game_state), res[1]>>))

\* an inner loop that leaves the game at the first pair without a result
RECURSIVE game_loop_break(_, _, _)
game_loop_break(individual_game_states, move_number, acc) ==
    IF move_number >= Len(individual_game_states) THEN acc
    ELSE IF move_number = Len(individual_game_states) - 1 THEN acc
    ELSE LET game_state == individual_game_states[move_number + 1]
             bs2 == individual_game_states[move_number + 2]
             res == find_moved_piece(game_state, bs2)
         IN  IF res = NoResult
             THEN acc
             ELSE game_loop_break(individual_game_states, move_number + 1,
                            Append(acc, <<board_to_8x8x12(game_state), res[1]>>))

game_examples_break(individual_game_states) ==
    game_loop_break(individual_game_states, 0, <<>>)

\* an inner loop that starts at the second snapshot
game_examples_from_second(individual_game_states) ==
    game_loop(individual_game_states, 1, <<>>)

\* the Examples one game adds to data
game_examples(individual_game_states) ==
    game_loop(individual_game_states, 0, <<>>)

\* the outer loop of get_data from game g (1-based) on
RECURSIVE get_data_loop(_, _, _)
get_data_loop(matrix_game_states, g, acc) ==
    IF g > Len(matrix_game_states) THEN acc
    ELSE get_data_loop(matrix_game_states, g + 1,
                       acc \o game_examples(matrix_game_states[g]))

----------------------------------------------------------------------------
(* The pipeline: one call of get_data *)

EmptyGrid == [i \in Idx |-> [j \in Idx |-> 0]]

Idle ==
    /\ board_state_1 = EmptyGrid
    /\ board_state_2 = EmptyGrid
    /\ moved = NoResult
    /\ board_12 = <<>>

Init ==
    /\ \E line \in Lines, n \in 0..MaxMoves :
          all_pgns \in SeqsUpTo(Pgns(line, n), MaxGames)
    /\ pc = "get_boards"
    /\ pgn_index = 1
    /\ all_boards = <<>>
    /\ all_matrices = <<>>
    /\ data = <<>>
    /\ Idle

\* get_boards, loop body: the entry is not a str and is skipped
GetBoardsSkip ==
    /\ pc = "get_boards"
    /\ pgn_index <= Len(all_pgns)
    /\ skip_non_string(all_pgns[pgn_index])
    /\ pgn_index' = pgn_index + 1
    /\ UNCHANGED <<all_pgns, pc, all_boards, all_matrices, data,
                   board_state_1, board_state_2, moved, board_12>>

\* get_boards, loop body: pgn_to_boards raises (game is None at
\* game.board()); nothing catches it, so it leaves get_data
GetBoardsRaise ==
    /\ pc = "get_boards"
    /\ pgn_index <= Len(all_pgns)
    /\ ~skip_non_string(all_pgns[pgn_index])
    /\ read_game_is_None(all_pgns[pgn_index])
    /\ pc' = "raised"
    /\ UNCHANGED <<all_pgns, pgn_index, all_boards, all_matrices, data,
                   board_state_1, board_state_2, moved, board_12>>

\* get_boards, loop body: the boards of the game are appended
GetBoardsAppend ==
    /\ pc = "get_boards"
    /\ pgn_index <= Len(all_pgns)
    /\ ~skip_non_string(all_pgns[pgn_index])
    /\ ~read_game_is_None(all_pgns[pgn_index])
    /\ all_boards' = Append(all_boards, pgn_to_boards(all_pgns[pgn_index]))
    /\ pgn_index' = pgn_index + 1
    /\ UNCHANGED <<all_pgns, pc, all_matrices, data,
                   board_state_1, board_state_2, moved, board_12>>

\* get_matrix_game_states after get_boards has returned
GetMatrixGameStates ==
    /\ pc = "get_boards"
    /\ pgn_index > Len(all_pgns)
    /\ all_matrices' = matrices_of(all_boards)
    /\ pc' = "matrices"
    /\ UNCHANGED <<all_pgns, pgn_index, all_boards, data,
                   board_state_1, board_state_2, moved, board_12>>

\* the loops of get_data
GetData ==
    /\ pc = "matrices"
    /\ data' = get_data_loop(all_matrices, 1, <<>>)
    /\ pc' = "done"
    /\ UNCHANGED <<all_pgns, pgn_index, all_boards, all_matrices,
                   board_state_1, board_state_2, moved, board_12>>

Next ==
    \/ GetBoardsSkip
    \/ GetBoardsRaise
    \/ GetBoardsAppend
    \/ GetMatrixGameStates
    \/ GetData

Spec == Init /\ [][Next]_vars

----------------------------------------------------------------------------
(* get_data on given matrix game states *)

StartMatrix == board_to_matrix(StartingBoard)

SetCell(m, k, v) == [m EXCEPT ![k \div BoardSize][k % BoardSize] = v]

\* the start position after the user's e2-e4
AfterUserMove == SetCell(SetCell(StartMatrix, 52, 0), 36, PAWN)
\* ... and after the opponent's e7-e5: no square of the user has changed
AfterReply == SetCell(SetCell(AfterUserMove, 12, 0), 28, -PAWN)

GivenGrids == {StartMatrix, AfterUserMove, AfterReply}

\* the first game of a run has up to MaxStates snapshots, the second one
\* fewer
GivenGames == SeqsUpTo(GivenGrids, MaxStates)
ShorterGivenGames == {g \in GivenGames : Len(g) < MaxStates}

InitData ==
    /\ all_pgns = <<>>
    /\ pc = "matrices"
    /\ pgn_index = 1
    /\ all_boards = <<>>
    /\ all_matrices \in {<<g1, g2>> : g1 \in GivenGames, g2 \in ShorterGivenGames}
    /\ data = <<>>
    /\ Idle

NextData == GetData

SpecData == InitData /\ [][NextData]_vars

----------------------------------------------------------------------------
(* Direct calls of find_moved_piece and board_to_8x8x12 on grids *)

\* the squares that are varied: e4, h1, a8, d5 (row-major indices)
EditCells == <<36, 63, 0, 27>>
RECURSIVE Edits(_, _)
\* the grids got from base by giving each of the first n EditCells one of
\* EditVals or leaving it
Edits(base, n) ==
    IF n = 0 THEN {base}
    ELSE LET k == EditCells[n]
         IN  UNION { {m, SetCell(m, k, -PAWN), SetCell(m, k, 0), SetCell(m, k, KING)} :
                     m \in Edits(base, n - 1) }

Grids ==
    Edits(EmptyGrid, Min(NumEditCells, Len(EditCells)))
        \cup Edits(StartMatrix, Min(NumEditCells, Len(EditCells)))

InitPure ==
    /\ all_pgns = <<>>
    /\ pc = "call"
    /\ pgn_index = 1
    /\ all_boards = <<>>
    /\ all_matrices = <<>>
    /\ data = <<>>
    /\ board_state_1 \in Grids
    /\ board_state_2 \in Grids
    /\ moved = NoResult
    /\ board_12 = <<>>

CallFindMovedPiece ==
    /\ pc = "call"
    /\ moved' = find_moved_piece(board_state_1, board_state_2)
    /\ pc' = "found"
    /\ UNCHANGED <<all_pgns, pgn_index, all_boards, all_matrices, data,
                   board_state_1, board_state_2, board_12>>

CallBoardTo8x8x12 ==
    /\ pc = "call"
    /\ board_12' = board_to_8x8x12(board_state_1)
    /\ pc' = "encoded"
    /\ UNCHANGED <<all_pgns, pgn_index, all_boards, all_matrices, data,
                   board_state_1, board_state_2, moved>>

NextPure ==
    \/ CallFindMovedPiece
    \/ CallBoardTo8x8x12

SpecPure == InitPure /\ [][NextPure]_vars

----------------------------------------------------------------------------
(* Definitions the properties are stated with *)

IsStr(pgn) == pgn.is_str
Parses(pgn) == pgn.is_str /\ ~read_game_is_None(pgn)

\* the str entries get_boards has gone through, in order: all_boards[j]
\* belongs to ProcessedPgns[j]
ProcessedPgns == SelectSeq(SubSeq(all_pgns, 1, pgn_index - 1), IsStr)

\* the username is one of the two recorded side identities
Resolved(pgn) == username \in {pgn.White, pgn.Black}

\* the 0-indexed move counters of the user's turns in a game of n moves
UserTurns(n, start) == [k \in 1..((n - start + 1) \div 2) |-> start + 2 * (k - 1)]

StartOf(pgn) == IF get_user_color(pgn) = "white" THEN 0 ELSE 1
TurnsOf(pgn) == UserTurns(Len(pgn.moves), StartOf(pgn))

\* the canonical form of a board for the user's colour
Canonical(board, user_color) == IF user_color = "white" THEN board ELSE mirror(board)

\* row-major index, in the user's matrix, of a square of the raw board
CanonicalIndex(sq, user_color) ==
    LET s == IF user_color = "white" THEN sq ELSE square_mirror(sq)
    IN  (7 - square_rank(s)) * BoardSize + square_file(s)

RECURSIVE Concat(_)
Concat(ss) == IF Len(ss) = 0 THEN <<>> ELSE Head(ss) \o Concat(Tail(ss))

RECURSIVE SumSeq(_)
SumSeq(ns) == IF Len(ns) = 0 THEN 0 ELSE Head(ns) + SumSeq(Tail(ns))

SetMax(S) == CHOOSE x \in S : \A y \in S : y <= x

Labels == [k \in 1..Len(data) |-> data[k][2]]

\* the from-squares of the user's moves between consecutive snapshots
FromSquareLabels(pgn) ==
    LET turns == TurnsOf(pgn)
    IN  [k \in 1..(IF Len(turns) = 0 THEN 0 ELSE Len(turns) - 1) |->
            CanonicalIndex(pgn.moves[turns[k] + 1].from_square, get_user_color(pgn))]

\* the 1-based indices i < n of the pairs (P_i, P_i+1) of a game that have
\* a result, in increasing order
IsLabelled(game, i) == find_moved_piece(game[i], game[i + 1]) /= NoResult
LabelledPairs(game) ==
    LET n == Len(game)
        count(i) == Cardinality({h \in 1..i : IsLabelled(game, h)})
        total == IF n = 0 THEN 0 ELSE count(n - 1)
    IN  [k \in 1..total |->
            CHOOSE i \in 1..(n - 1) : IsLabelled(game, i) /\ count(i) = k]

\* the labels find_moved_piece gives for the pairs of a game that have one
PairLabels(game) ==
    LET pairs == LabelledPairs(game)
    IN  [k \in 1..Len(pairs) |-> find_moved_piece(game[pairs[k]], game[pairs[k] + 1])[1]]

----------------------------------------------------------------------------
(* C1 *)

\* C1: every label get_data emits is the row-major index, in the canonical
\* grid, of the square the user's piece moved from on the user's move made
\* in the position of the tensor (runs whose games all have the user as one
\* of the sides).
C1_LabelIsFromSquare ==
    (pc = "done" /\ \A j \in 1..Len(ProcessedPgns) : Resolved(ProcessedPgns[j]))
        => Labels = Concat([j \in 1..Len(ProcessedPgns) |->
                               FromSquareLabels(ProcessedPgns[j])])

----------------------------------------------------------------------------
(* C2 *)

\* C2: for a game of n moves pgn_to_boards returns, in game order, one
\* board per move counter i of the user's parity, and the k-th is the
\* canonical form of the board after exactly the first i_k moves,
\* whatever is pushed later.
C2_SnapshotsBeforeUserMoves ==
    pc \in {"matrices", "raised"} =>
        LET processed == ProcessedPgns
        IN  /\ Len(all_boards) = Len(processed)
            /\ \A j \in 1..Len(all_boards) :
                  LET pgn == processed[j]
                      turns == TurnsOf(pgn)
                  IN  /\ Len(all_boards[j]) = Len(turns)
                      /\ \A k \in 1..Len(turns) :
                             /\ turns[k] \in 0..(Len(pgn.moves) - 1)
                             /\ turns[k] % 2 = StartOf(pgn)
                             /\ k > 1 => turns[k] = turns[k - 1] + 2
                             /\ all_boards[j][k] =
                                   Canonical(board_after(pgn.moves, turns[k]),
                                             get_user_color(pgn))
                      /\ \A i \in 0..(Len(pgn.moves) - 1) :
                             i % 2 = StartOf(pgn) => \E k \in 1..Len(turns) : turns[k] = i
                      /\ (Len(pgn.moves) = 0 => all_boards[j] = <<>>)
                      /\ (Len(pgn.moves) = 7 /\ get_user_color(pgn) = "white"
                              => Len(all_boards[j]) = 4)

C2_Witness ==
    /\ pc = "matrices"
    /\ \E j \in 1..Len(all_boards) :
          /\ Len(ProcessedPgns[j].moves) = 7
          /\ get_user_color(ProcessedPgns[j]) = "white"
          /\ Len(all_boards[j]) = 4
    /\ \E j \in 1..Len(all_boards) :
          /\ get_user_color(ProcessedPgns[j]) = "black"
          /\ Len(all_boards[j]) = 3

----------------------------------------------------------------------------
(* C3 *)

Candidates(b1, b2) ==
    {sq \in Squares : flatten(b1)[sq] /= flatten(b2)[sq] /\ flatten(b1)[sq] > 0}

\* C3: find_moved_piece(P1, P2) returns (s, P1[s]) for the largest
\* row-major index s with P1[s] /= P2[s] and P1[s] > 0, and None exactly
\* when there is no such square (so for P1 = P2).
C3_LastCandidate ==
    pc = "found" =>
        LET cands == Candidates(board_state_1, board_state_2)
        IN  /\ (cands = {} <=> moved = NoResult)
            /\ (cands /= {} =>
                   moved = <<SetMax(cands),
                             board_state_1[SetMax(cands) \div BoardSize]
                                          [SetMax(cands) % BoardSize]>>)
            /\ (board_state_1 = board_state_2 => moved = NoResult)

C3_Witness ==
    /\ pc = "found"
    /\ Cardinality(Candidates(board_state_1, board_state_2)) >= 2
    /\ moved /= NoResult
    /\ moved[1] = SetMax(Candidates(board_state_1, board_state_2))

----------------------------------------------------------------------------
(* C4 *)

ChannelOf(piece) ==
    IF piece > 0 THEN piece - 1 ELSE Abs(piece) - 1 + OppChannelOffset

----------------------------------------------------------------------------
(* C5 *)

\* the matrix of the raw (unmirrored) board before the user's k-th move
RawMatrix(pgn, k) == board_to_matrix(board_after(pgn.moves, TurnsOf(pgn)[k]))

\* C5 as stated: with the user as second mover every canonical Position
\* is the 180-degree rotation of the raw grid (the piece at raw (row, col)
\* appears at (7 - row, 7 - col)), with the user's pieces positive.
C5_Rotation ==
    pc = "matrices" =>
        LET processed == ProcessedPgns
        IN  \A j \in 1..Len(all_matrices) :
                get_user_color(processed[j]) = "black" =>
                    \A k \in 1..Len(all_matrices[j]) :
                        LET raw == RawMatrix(processed[j], k)
                        IN  all_matrices[j][k] =
                                [r \in Idx |-> [c \in Idx |-> -raw[7 - r][7 - c]]]

\* C5 amended: with the user as second mover every canonical Position is
\* the raw grid with its rows reversed and its columns kept (the piece at
\* raw (row, col) appears at (7 - row, col)) and every code negated, so
\* that the user's pieces are positive.
C5_VerticalFlip ==
    pc = "matrices" =>
        LET processed == ProcessedPgns
        IN  \A j \in 1..Len(all_matrices) :
                get_user_color(processed[j]) = "black" =>
                    /\ Len(all_matrices[j]) = Len(TurnsOf(processed[j]))
                    /\ \A k \in 1..Len(all_matrices[j]) :
                          LET raw == RawMatrix(processed[j], k)
                          IN  all_matrices[j][k] =
                                  [r \in Idx |-> [c \in Idx |-> -raw[7 - r][c]]]

C5_Witness ==
    /\ pc = "matrices"
    /\ \E j \in 1..Len(all_matrices) :
          /\ ProcessedPgns[j].Black = username
          /\ Len(all_matrices[j]) >= 3
          \* the user's queen stands on the d-file, left of the king
          /\ all_matrices[j][1][7][3] = QUEEN
          /\ all_matrices[j][1][7][4] = KING

----------------------------------------------------------------------------
(* C6 *)

\* C6: when read_game fails on one record, that game alone is skipped:
\* no exception leaves get_data, and the Examples are those of the other
\* records.
C6_FailedGameSkipped ==
    LET others == SelectSeq(all_pgns, Parses)
    IN  /\ pc /= "raised"
        /\ (pc = "done" =>
               data = get_data_loop(
                          matrices_of([j \in 1..Len(others) |-> pgn_to_boards(others[j])]),
                          1, <<>>))

----------------------------------------------------------------------------
(* C7 *)

\* C7: a record whose username is neither side is skipped before replay:
\* it contributes no Positions and no Examples.
C7_UnresolvedSkipped ==
    /\ \A j \in 1..Len(all_boards) :
          ~Resolved(ProcessedPgns[j]) => all_boards[j] = <<>>
    /\ pc = "done" =>
          data = get_data_loop(
                     [j \in 1..Len(all_matrices) |->
                         IF Resolved(ProcessedPgns[j]) THEN all_matrices[j] ELSE <<>>],
                     1, <<>>)

----------------------------------------------------------------------------
(* C8 *)

\* C8: an entry that is not a str is left out by get_boards: it adds no
\* Positions and no Examples, it raises nothing, and the str entries
\* before and after it are processed, in order.
C8_NonStringExcluded ==
    LET processed == ProcessedPgns
    IN  /\ pc = "raised" => IsStr(all_pgns[pgn_index])
        /\ pc = "get_boards" =>
              /\ Len(all_boards) = Len(processed)
              /\ Len(all_boards) >= 1 =>
                    all_boards[Len(all_boards)] = pgn_to_boards(processed[Len(processed)])
        /\ pc = "matrices" =>
              /\ pgn_index = Len(all_pgns) + 1
              /\ processed = SelectSeq(all_pgns, IsStr)
              /\ all_boards = [j \in 1..Len(processed) |-> pgn_to_boards(processed[j])]
              /\ Len(all_matrices) = Len(processed)
        /\ pc = "done" =>
              /\ Len(all_matrices) = Len(SelectSeq(all_pgns, IsStr))
              /\ Labels = Concat([j \in 1..Len(processed) |->
                                     PairLabels(matrices_of_game(pgn_to_boards(processed[j])))])

C8_Witness ==
    /\ pc = "done"
    /\ Len(all_pgns) = 2
    /\ ~IsStr(all_pgns[1])
    /\ IsStr(all_pgns[2])
    /\ Len(all_boards) = 1
    /\ Len(data) >= 2

----------------------------------------------------------------------------
(* C9 *)

ExamplesOf(j) == Len(game_examples(all_matrices[j]))

\* C9 as stated: for every replayed record the number of Examples is one
\* fewer than the number of Positions (and never more than Positions - 1).
C9_OneFewer ==
    pc = "done" =>
        /\ \A j \in 1..Len(all_matrices) :
              ExamplesOf(j) = Len(all_matrices[j]) - 1
        /\ Len(data) = SumSeq([j \in 1..Len(all_matrices) |-> Len(all_matrices[j]) - 1])

\* C9 amended: for every replayed record (of legal moves) the number of
\* Examples is one fewer than the number of Positions when at least one
\* Position was recorded, and zero when none was: every adjacent pair of
\* snapshots yields a label and only the final Position yields none.
C9_OneFewerOrNone ==
    pc = "done" =>
        /\ \A j \in 1..Len(all_matrices) :
              /\ LET examples == ExamplesOf(j)
                 IN  /\ Len(all_matrices[j]) >= 1 => examples = Len(all_matrices[j]) - 1
                     /\ Len(all_matrices[j]) = 0 => examples = 0
              /\ \A k \in 1..(Len(all_matrices[j]) - 1) :
                    find_moved_piece(all_matrices[j][k], all_matrices[j][k + 1]) /= NoResult
        /\ Len(data) = SumSeq([j \in 1..Len(all_matrices) |->
                                 IF Len(all_matrices[j]) = 0 THEN 0
                                 ELSE Len(all_matrices[j]) - 1])

C9_Witness ==
    /\ pc = "done"
    /\ \E j \in 1..Len(all_matrices) : Len(all_matrices[j]) = 0
    /\ \E j \in 1..Len(all_matrices) : Len(all_matrices[j]) >= 3
    /\ Len(data) >= 2

----------------------------------------------------------------------------
(* C10 *)

ExpectedExamples(game) ==
    LET pairs == LabelledPairs(game)
    IN  [k \in 1..Len(pairs) |->
            <<board_to_8x8x12(game[pairs[k]]),
              find_moved_piece(game[pairs[k]], game[pairs[k] + 1])[1]>>]

\* C10: the output of get_data is, over the games in input order and in
\* each game over the pairs (P_i, P_i+1) in increasing order, the Example
\* (board_to_8x8x12(P_i), s_i) of every pair with a result (s_i, _): the
\* tensor is that of the earlier Position, a pair without a result is
\* passed over, the last Position gives no tensor, and no pair spans two
\* games.
C10_DataIsLabelledPairs ==
    pc = "done" =>
        data = Concat([g \in 1..Len(all_matrices) |-> ExpectedExamples(all_matrices[g])])

C10_Witness ==
    /\ pc = "done"
    /\ Len(all_matrices) = 2
    /\ Len(all_matrices[1]) = 3
    /\ ~IsLabelled(all_matrices[1], 1)
    /\ IsLabelled(all_matrices[1], 2)
    /\ Len(all_matrices[2]) = 2
    /\ IsLabelled(all_matrices[2], 1)
    /\ all_matrices[1][3] /= all_matrices[2][1]
    /\ Len(data) = 2
    /\ data[1][1] = board_to_8x8x12(all_matrices[1][2])

=============================================================================
